---- MODULE Spec2Model ----
(***************************************************************************)
(* Supervisory firmware of the MR60BHA2 radar node (src/radar_usb.ino):    *)
(* overflow-safe interval timers, failure counters, the escalating         *)
(* recovery actions with their reset budget, and the hourly / emergency    *)
(* deep-sleep duty cycle with the variables kept in RTC memory.            *)
(*                                                                         *)
(* Time is the value of millis() in milliseconds.  One loop() iteration is *)
(* one step; millis() is sampled once per iteration and the iteration      *)
(* lasts a whole number of TickStep milliseconds.  unsigned long is 32 bits *)
(* wide on the ESP32; the model keeps 30 of them (arithmetic modulo 2^30,  *)
(* MAX_TICK the all-ones value 0xFFFFFFFF stands for), so that every sum   *)
(* of two ticks stays a machine integer of the model checker.              *)
(***************************************************************************)
EXTENDS Integers, Sequences, FiniteSets, TLC

\* ------------------------------------------------------------ constants
FAILURE_LOG_EVERY == 5
SIM_BREATH_START == 16
SIM_HEART_START == 70
SIM_BREATH_MIN == 12
SIM_BREATH_MAX == 25
SIM_HEART_MIN == 60
SIM_HEART_MAX == 100
SIM_BREATH_STEP == 2
SIM_HEART_STEP == 5
SIMULATION_INTERVAL == 5000
HOURLY_SLEEP_INTERVAL == 3600000
DEEP_SLEEP_DURATION == 60000000
MIN_RESET_INTERVAL == 1800000
MAX_RESETS_PER_SESSION == 3
RESET_TIMEOUT == 600000
MAX_CONSECUTIVE_FAILURES == 20
SERIAL_CHECK_INTERVAL == 60000
DIAGNOSTIC_INTERVAL == 300000
MAX_RECOVERY_ATTEMPTS == 3
COMPLETE_FAILURE_CHECK_INTERVAL == 30000
COMPLETE_FAILURE_LIMIT == 5
POSITION_RECOVERY_INTERVAL == 60000
PREVENTIVE_RESET_SECONDS == 7200
PREVENTIVE_RESET_WINDOW == 60
VITALS_FAILED_DEBUG_INTERVAL == 15000
VITALS_ROBUST_THRESHOLD == 2
ALL_FAILED_DEBUG_INTERVAL == 10000
ALL_FAILED_DIAG_COUNT == 3
ALL_FAILED_TRYALL_COUNT == 4
ALL_FAILED_FORCE_COUNT == 5
POSITION_FAIL_DEBUG_INTERVAL == 60000
POSITION_FAIL_FLUSH_COUNT == 3
FALLBACK_UPDATE_INTERVAL == 2000
FAILURES_TEST_COMM == 10
FAILURES_SAFE_RESET == 15
MAX_TICK == 1073741823

\* ------------------------------------------------------------ bounds
\* Duration of one loop() iteration in milliseconds (the sampling grid).
TickStep == 30000
\* setup() lasts between 1 and MaxSetupTicks grid steps.
MaxSetupTicks == 2
\* Number of passes through setup() (cold boot and wake-ups) explored.
MaxBoots == 3
\* The timer probes take tick values within EdgeSpan of 0 and of MAX_TICK.
EdgeSpan == 4

TickMod == MAX_TICK + 1

\* unsigned long arithmetic
U32(x) == x % TickMod

\* ------------------------------------------------------------ timers
\* The elapsed time check_timeout_safe and get_time_until_next_sleep
\* compute: the wraparound branch when current_time < last_time.
ElapsedSafe(current_time, last_time) ==
    IF current_time < last_time
    THEN U32(current_time + (MAX_TICK - last_time))
    ELSE current_time - last_time

check_timeout_safe(current_time, last_time, timeout) ==
    ElapsedSafe(current_time, last_time) > timeout

get_time_until_next_sleep(current_time, last_sleep) ==
    IF ElapsedSafe(current_time, last_sleep) >= HOURLY_SLEEP_INTERVAL
    THEN 0
    ELSE HOURLY_SLEEP_INTERVAL - ElapsedSafe(current_time, last_sleep)

\* Plain unsigned subtraction, as in `millis() - last > period`.
ElapsedRaw(current_time, last_time) == U32(current_time - last_time)

\* ------------------------------------------------------------ reset budget
\* Variant: the interval has to be exceeded, not just reached.
is_reset_safe_strictly_after(current_time, count, last_rtc) ==
    IF count >= MAX_RESETS_PER_SESSION THEN FALSE
    ELSE IF ElapsedRaw(current_time, last_rtc) <= MIN_RESET_INTERVAL THEN FALSE
    ELSE TRUE

\* Variant: with no reset on record there is no interval to wait for.
is_reset_safe_first_free(current_time, count, last_rtc) ==
    IF count >= MAX_RESETS_PER_SESSION THEN FALSE
    ELSE IF last_rtc # 0 /\ ElapsedRaw(current_time, last_rtc) < MIN_RESET_INTERVAL
         THEN FALSE
    ELSE TRUE

is_reset_safe(current_time, count, last_rtc) ==
    IF count >= MAX_RESETS_PER_SESSION THEN FALSE
    ELSE IF ElapsedRaw(current_time, last_rtc) < MIN_RESET_INTERVAL THEN FALSE
    ELSE TRUE

\* ------------------------------------------------------------ state
VARIABLES
    rtc,        \* RTC_DATA_ATTR variables: kept across deep sleep
    ram,        \* every other global and function-static: lost in deep sleep
    now,        \* millis(): restarts at 0 on every boot
    pc,         \* "setup" | "loop" | "sleep"; "drain" | "returned" inside a recovery action
    wake,       \* esp_sleep_get_wakeup_cause(): "cold" | "timer"
    acts,       \* device and recovery actions executed by the last step, in order
    obs,        \* observations of the last step and of the wall clock
    sensor,     \* the condition of the sensor, and whether it has changed
    probe,      \* arguments and result of a timer call (timer specification only)
    rx          \* bytes waiting in the receive buffer of mmWaveSerial (drain specification only)

vars == <<rtc, ram, now, pc, wake, acts, obs, sensor, probe, rx>>

RtcInit ==
    [ bootCount |-> 0,
      last_hourly_sleep |-> 0,
      last_reset_time_rtc |-> 0 ]

RamInit ==
    [ is_hourly_sleep_mode |-> FALSE,
      reset_count_this_session |-> 0,
      last_data_received |-> 0,
      consecutive_failures |-> 0,
      total_loops |-> 0,
      successful_readings |-> 0,
      failed_readings |-> 0,
      last_serial_check |-> 0,
      last_diagnostic_time |-> 0,
      last_complete_failure_check |-> 0,
      complete_failure_count |-> 0,
      position_recovery_attempted |-> FALSE,
      last_position_recovery |-> 0,
      recovery_attempts |-> 0,
      breath_rate |-> 0,
      heart_rate |-> 0,
      distance |-> 0,
      x_position |-> 0,
      y_position |-> 0,
      consecutive_vitals_failed_count |-> 0,
      last_vitals_failed_debug |-> 0,
      consecutive_all_failed_count |-> 0,
      last_all_failed_debug |-> 0,
      consecutive_position_failures |-> 0,
      last_position_fail_debug |-> 0,
      last_fallback_update |-> 0,
      last_simulation |-> 0,
      sim_breath |-> SIM_BREATH_START,
      sim_heart |-> SIM_HEART_START ]

\* Observations (not program state).  Wall-clock distances saturate at the
\* interval they are compared with; -1 stands for "never happened".
ObsInit ==
    [ step |-> "init",          \* the step that produced this state
      sleep_kind |-> "none",    \* the latest suspend: "hourly" | "emergency"
      since_reset |-> -1,       \* wall ms since last_reset_time_rtc was written
      since_sched |-> -1,       \* wall ms since the last hourly suspend was entered
      elapsed_reset |-> -1,     \* since_reset when the last step began
      elapsed_sched |-> -1,     \* since_sched when the last step began
      req_cf |-> -1,            \* consecutive_failures when safe_reset_sensor was called
      flag_at_sleep |-> FALSE,  \* is_hourly_sleep_mode when esp_deep_sleep_start ran
      flag_at_setup |-> FALSE,  \* is_hourly_sleep_mode when setup() inspected it
      count_at_sleep |-> 0,     \* reset_count_this_session when esp_deep_sleep_start ran
      rtc_at_sleep |-> RtcInit, \* the RTC variables when esp_deep_sleep_start ran
      future_marks |-> {},      \* marks found ahead of millis() at a comparison
      wd_since_success |-> 0,   \* complete_failure_count increments since the last successful update(), up to 2
      fallback_run |-> 0,       \* iterations in a row that substituted the position, no tier 3 between
      pos_reached |-> 0,        \* value consecutive_position_failures was incremented to
      flush_unsafe |-> FALSE,   \* a flush ran while is_reset_safe() was false
      flush_changed_budget |-> FALSE, \* a flush changed the count or the mark of the resets
      since_fresh |-> 0,        \* ms without a cycle that read any data when the next iteration begins
      wd_zero_run |-> 0,        \* watchdog checks in a row that saw the five values at 0
      wd_forced_after |-> -1,   \* wd_zero_run when the watchdog forced the reinitialization
      both_due |-> FALSE,       \* hourly and data timeout both due in the last iteration
      synthetic_pos |-> FALSE,  \* x_position, y_position hold a fallback position
      retry_reset_on_synthetic |-> FALSE, \* the retry state was reset on a fallback position
      cf_at_check |-> -1,       \* consecutive_failures at the consecutive-failure check
      sent |-> << >>,           \* the records send_formatted_data wrote in the last iteration
      robust_result |-> "none", \* what get_vital_signs_robust obtained in the last iteration
      silence |-> 0,            \* ms without a successful update() when the last iteration began
      boot_acts |-> << >>,      \* what setup() did in this boot
      all_reached |-> 0,        \* value consecutive_all_failed_count was incremented to
      vitals_reached |-> 0,     \* same for consecutive_vitals_failed_count
      retest_fails |-> -1,      \* update() re-tests that failed inside an escalation
      tiers_update |-> {},      \* recovery tiers run in the current run of update() failures
      diag_in_streak |-> 0,     \* diagnostics run by the current all-data-failed streak
      hourly_due |-> FALSE,     \* the hourly check of the last iteration
      run |-> [ update |-> 0, vitals |-> 0, all |-> 0, position |-> 0 ],
      last_success |-> 0 ]      \* tick of the last successful update() of this boot

\* Values the sensor variables take: 0 is the "no data" sentinel, 1 a reading;
\* distance 1 is a reading up to 1.5 m and 2 a reading beyond it.
NoData == 0
Reading == 1
FarReading == 2

\* The outcome of the driver calls of one loop() iteration.
Outcome(u, b, h, d, p, sr, rb, rt) ==
    [ update |-> u,         \* mmWave.update(5000)
      breath |-> b,         \* getBreathRate: NoData | Reading
      heart |-> h,          \* getHeartRate
      dist |-> d,           \* getDistance: NoData | Reading | FarReading
      pos |-> p,            \* getPeopleCountingTartgetInfo: "fail" | "empty" | "target"
      serial_resp |-> sr,   \* bytes available during check_serial_communication
      robust |-> rb,        \* get_vital_signs_robust: "fail" | "breath" | "heart" | "both"
      retest_fails |-> rt,  \* how many of the re-test update() calls fail in a row
      rand |-> [ breath |-> 0, heart |-> 0 ] ] \* what random() returns to simulate_vital_signs

Healthy == Outcome(TRUE, Reading, Reading, Reading, "target", TRUE, "both", 0)
Dead == Outcome(FALSE, NoData, NoData, NoData, "fail", FALSE, "fail", 2)
Mute == Outcome(TRUE, NoData, NoData, NoData, "fail", FALSE, "fail", 2)
NoPosition == Outcome(TRUE, Reading, Reading, Reading, "fail", TRUE, "both", 0)

\* The conditions of the sensor: working, silent on the wire, or answering
\* with no data.
Modes == { "healthy", "dead", "mute" }

OutcomeOf(m) ==
    IF m = "healthy" THEN Healthy ELSE IF m = "dead" THEN Dead ELSE Mute

\* A working copy of the state threaded through the blocks of one step.
Ctx == [ rtc |-> rtc, ram |-> ram, now |-> now, pc |-> pc, acts |-> << >>,
         obs |-> [obs EXCEPT !.req_cf = -1, !.all_reached = 0,
                             !.vitals_reached = 0, !.retest_fails = -1,
                             !.future_marks = {}, !.pos_reached = 0,
                             !.flush_unsafe = FALSE,
                             !.flush_changed_budget = FALSE,
                             !.wd_forced_after = -1, !.both_due = FALSE,
                             !.retry_reset_on_synthetic = FALSE,
                             !.cf_at_check = -1, !.sent = << >>,
                             !.robust_result = "none"] ]

Log(c, a) == [c EXCEPT !.acts = Append(@, a)]

Saturate(x, cap) == IF x > cap THEN cap ELSE x

Advance(since, d, cap) == IF since < 0 THEN since ELSE Saturate(since + d, cap)

\* A comparison of millis() with a mark: the mark is noted when it is ahead
\* of the clock.
Compared(c, name, mark) ==
    IF mark > c.now THEN [c EXCEPT !.obs.future_marks = @ \cup {name}] ELSE c

\* ------------------------------------------------------------ recovery actions
\* Tier 1: drain the serial buffer, then poll the driver once.
\* Variant: the flush counts as a reset and stamps the reset mark.
reset_position_communication_spending_budget(c) ==
    Log([c EXCEPT !.ram.reset_count_this_session = U32(@ + 1),
                  !.rtc.last_reset_time_rtc = c.now],
        "reset_position_communication")

reset_position_communication(c) == Log(c, "reset_position_communication")

\* Tier 2: mmWaveSerial.end(), begin(115200), mmWave.begin().
reset_sensor_via_serial(c) == Log(c, "reset_sensor_via_serial")

\* Tier 2 with a guard of its own: returns early when update() works again.
careful_sensor_reinitialization(c, before_test) ==
    IF before_test
    THEN Log(c, "careful_skipped")
    ELSE Log(c, "careful_sensor_reinitialization")

\* Tier 3: link restart plus the continuous-mode, ASCII and position
\* configuration frames.
\* Variant: the full reinitialization also restarts the data timestamp.
force_complete_restarting_data_timer(c) ==
    Log([c EXCEPT !.ram.last_data_received = c.now],
        "force_complete_sensor_reinitialization")

\* Variant: the full reinitialization ends by entering deep sleep itself.
force_complete_then_deep_sleep(c) ==
    [Log(Log(c, "force_complete_sensor_reinitialization"), "enter_deep_sleep")
         EXCEPT !.pc = "sleep",
                !.obs.sleep_kind = "recovery",
                !.obs.flag_at_sleep = c.ram.is_hourly_sleep_mode,
                !.obs.count_at_sleep = c.ram.reset_count_this_session,
                !.obs.rtc_at_sleep = c.rtc]

force_complete_sensor_reinitialization(c) ==
    Log(c, "force_complete_sensor_reinitialization")

\* Link restart that also restarts the timestamps and counters.
\* Variant: the link restart counts as a boot.
reset_sensor_system_counting_boot(c) ==
    Log([c EXCEPT !.ram.last_data_received = c.now,
                  !.ram.consecutive_failures = 0,
                  !.ram.failed_readings = 0,
                  !.ram.successful_readings = 0,
                  !.rtc.bootCount = @ + 1],
        "reset_sensor_system")

reset_sensor_system(c) ==
    Log([c EXCEPT !.ram.last_data_received = c.now,
                  !.ram.consecutive_failures = 0,
                  !.ram.failed_readings = 0,
                  !.ram.successful_readings = 0],
        "reset_sensor_system")

attempt_position_recovery(c) == Log(c, "attempt_position_recovery")

test_serial_communication(c) == Log(c, "test_serial_communication")

\* Tiny-frame reset, then ASCII reset, then the serial restart, each only
\* when the update() after the previous one failed.
\* Variant: the three methods run one after the other whatever the re-tests say.
test_all_reset_methods_unconditional(c, retest_fails) ==
    reset_sensor_via_serial(
        Log(Log(c, "reset_radar_tiny_frame"), "reset_radar_ascii"))

test_all_reset_methods(c, retest_fails) ==
    LET c1 == Log(c, "reset_radar_tiny_frame")
        c2 == IF retest_fails >= 1 THEN Log(c1, "reset_radar_ascii") ELSE c1
    IN  IF retest_fails >= 2 THEN reset_sensor_via_serial(c2) ELSE c2

\* Variant: an authorized reset stamps the mark but does not count itself.
safe_reset_sensor_keeping_count(c) ==
    LET r == Compared([c EXCEPT !.obs.req_cf = c.ram.consecutive_failures],
                      "last_reset_time_rtc", c.rtc.last_reset_time_rtc)
    IN  IF ~is_reset_safe(r.now, r.ram.reset_count_this_session,
                          r.rtc.last_reset_time_rtc)
        THEN Log(r, "reset_denied")
        ELSE reset_sensor_via_serial(
                 Log([r EXCEPT !.rtc.last_reset_time_rtc = r.now],
                     "reset_authorized"))

safe_reset_sensor(c) ==
    LET r == Compared([c EXCEPT !.obs.req_cf = c.ram.consecutive_failures],
                      "last_reset_time_rtc", c.rtc.last_reset_time_rtc)
    IN  IF ~is_reset_safe(r.now, r.ram.reset_count_this_session,
                          r.rtc.last_reset_time_rtc)
        THEN Log(r, "reset_denied")
        ELSE reset_sensor_via_serial(
                 Log([r EXCEPT !.ram.reset_count_this_session = U32(@ + 1),
                               !.rtc.last_reset_time_rtc = r.now],
                     "reset_authorized"))

\* ------------------------------------------------------------ loop(): supervision
\* Variant: a silent UART also starts the count of the resets again.
check_serial_communication_clearing_count(c, response_received) ==
    IF ~response_received
    THEN [c EXCEPT !.ram.consecutive_failures = U32(@ + 1),
                   !.ram.reset_count_this_session = 0]
    ELSE [c EXCEPT !.ram.consecutive_failures = 0]

check_serial_communication(c, response_received) ==
    IF ~response_received
    THEN [c EXCEPT !.ram.consecutive_failures = U32(@ + 1)]
    ELSE [c EXCEPT !.ram.consecutive_failures = 0]

\* perform_system_diagnostic(): its prints aside, the serial check.
perform_system_diagnostic(c, response_received) ==
    Log(check_serial_communication(c, response_received),
        "perform_system_diagnostic")

\* The full diagnostic, every 5 minutes; the UART answers it as it answers
\* the serial check of the same iteration.
PeriodicDiagnostic(c, o) ==
    IF check_timeout_safe(c.now, c.ram.last_diagnostic_time, DIAGNOSTIC_INTERVAL)
    THEN [perform_system_diagnostic(c, o.serial_resp)
              EXCEPT !.ram.last_diagnostic_time = c.now]
    ELSE c

PeriodicSerialCheck(c, o) ==
    IF check_timeout_safe(c.now, c.ram.last_serial_check, SERIAL_CHECK_INTERVAL)
    THEN [check_serial_communication(c, o.serial_resp)
              EXCEPT !.ram.last_serial_check = c.now]
    ELSE c

\* Variant: a check that sees a value keeps the count of the checks before it.
CompleteFailureWatchdog_keeping_count(c) ==
    IF ~check_timeout_safe(c.now, c.ram.last_complete_failure_check,
                           COMPLETE_FAILURE_CHECK_INTERVAL)
    THEN c
    ELSE
      LET all_data_zero ==
              /\ c.ram.breath_rate = NoData /\ c.ram.heart_rate = NoData
              /\ c.ram.distance = NoData
              /\ c.ram.x_position = NoData /\ c.ram.y_position = NoData
          n == c.ram.complete_failure_count + 1
          run == c.obs.wd_zero_run + 1
          c0 == [c EXCEPT !.obs.wd_since_success = Saturate(@ + 1, 2),
                          !.obs.wd_zero_run = run]
          c1 == IF ~all_data_zero
                THEN [c EXCEPT !.obs.wd_zero_run = 0]
                ELSE IF n >= COMPLETE_FAILURE_LIMIT
                THEN [force_complete_sensor_reinitialization(c0)
                          EXCEPT !.ram.complete_failure_count = 0,
                                 !.obs.wd_zero_run = 0,
                                 !.obs.wd_forced_after = run]
                ELSE [c0 EXCEPT !.ram.complete_failure_count = n]
      IN  [c1 EXCEPT !.ram.last_complete_failure_check = c.now]

\* The watchdog on the last-known values, every 30 seconds.
CompleteFailureWatchdog(c) ==
    IF ~check_timeout_safe(c.now, c.ram.last_complete_failure_check,
                           COMPLETE_FAILURE_CHECK_INTERVAL)
    THEN c
    ELSE
      LET all_data_zero ==
              /\ c.ram.breath_rate = NoData /\ c.ram.heart_rate = NoData
              /\ c.ram.distance = NoData
              /\ c.ram.x_position = NoData /\ c.ram.y_position = NoData
          n == c.ram.complete_failure_count + 1
          run == c.obs.wd_zero_run + 1
          c0 == [c EXCEPT !.obs.wd_since_success = Saturate(@ + 1, 2),
                          !.obs.wd_zero_run = run]
          c1 == IF ~all_data_zero
                THEN [c EXCEPT !.ram.complete_failure_count = 0,
                               !.obs.wd_zero_run = 0]
                ELSE IF n >= COMPLETE_FAILURE_LIMIT
                THEN [force_complete_sensor_reinitialization(c0)
                          EXCEPT !.ram.complete_failure_count = 0,
                                 !.obs.wd_zero_run = 0,
                                 !.obs.wd_forced_after = run]
                ELSE [c0 EXCEPT !.ram.complete_failure_count = n]
      IN  [c1 EXCEPT !.ram.last_complete_failure_check = c.now]

PositionRecoveryRetry(c) ==
    IF c.ram.x_position = NoData /\ c.ram.y_position = NoData
    THEN IF ~c.ram.position_recovery_attempted
         THEN [attempt_position_recovery(c)
                   EXCEPT !.ram.position_recovery_attempted = TRUE,
                          !.ram.recovery_attempts = 1,
                          !.ram.last_position_recovery = c.now]
         ELSE IF ElapsedRaw(c.now, c.ram.last_position_recovery)
                     > POSITION_RECOVERY_INTERVAL
         THEN LET n == c.ram.recovery_attempts + 1
                  c1 == IF n >= MAX_RECOVERY_ATTEMPTS
                        THEN [force_complete_sensor_reinitialization(c)
                                  EXCEPT !.ram.recovery_attempts = 0]
                        ELSE [attempt_position_recovery(c)
                                  EXCEPT !.ram.recovery_attempts = n]
              IN  [c1 EXCEPT !.ram.last_position_recovery = c.now]
         ELSE c
    ELSE [c EXCEPT !.ram.position_recovery_attempted = FALSE,
                   !.ram.recovery_attempts = 0,
                   !.obs.retry_reset_on_synthetic =
                       c.ram.position_recovery_attempted /\ c.obs.synthetic_pos]

\* esp_deep_sleep_start(): nothing after it runs in this boot.
\* Variant: every suspend stamps last_hourly_sleep.
enter_deep_sleep_stamping_mark(c, kind) ==
    [Log(c, "enter_deep_sleep")
         EXCEPT !.pc = "sleep",
                !.rtc.last_hourly_sleep = c.now,
                !.obs.sleep_kind = kind,
                !.obs.flag_at_sleep = c.ram.is_hourly_sleep_mode,
                !.obs.count_at_sleep = c.ram.reset_count_this_session,
                !.obs.rtc_at_sleep = [c.rtc EXCEPT !.last_hourly_sleep = c.now]]

enter_deep_sleep(c, kind) ==
    [Log(c, "enter_deep_sleep")
         EXCEPT !.pc = "sleep",
                !.obs.sleep_kind = kind,
                !.obs.flag_at_sleep = c.ram.is_hourly_sleep_mode,
                !.obs.count_at_sleep = c.ram.reset_count_this_session,
                !.obs.rtc_at_sleep = c.rtc]

\* Variant: the scheduled suspend gives way to the emergency one when the
\* data timeout is due as well.
HourlyDeepSleep_after_emergency(c) ==
    LET due == check_timeout_safe(c.now, c.rtc.last_hourly_sleep,
                                  HOURLY_SLEEP_INTERVAL)
        timeout == check_timeout_safe(c.now, c.ram.last_data_received,
                                      RESET_TIMEOUT)
        c0 == Compared([c EXCEPT !.obs.hourly_due = due,
                                 !.obs.both_due = due /\ timeout],
                       "last_hourly_sleep", c.rtc.last_hourly_sleep)
    IN  IF due /\ ~timeout
        THEN enter_deep_sleep(
                 [c0 EXCEPT !.ram.is_hourly_sleep_mode = TRUE,
                            !.rtc.last_hourly_sleep = c.now],
                 "hourly")
        ELSE c0

HourlyDeepSleep(c) ==
    LET due == check_timeout_safe(c.now, c.rtc.last_hourly_sleep,
                                  HOURLY_SLEEP_INTERVAL)
        c0 == Compared([c EXCEPT
                           !.obs.hourly_due = due,
                           !.obs.both_due =
                               due /\ check_timeout_safe(c.now,
                                          c.ram.last_data_received, RESET_TIMEOUT)],
                       "last_hourly_sleep", c.rtc.last_hourly_sleep)
    IN  IF due
        THEN enter_deep_sleep(
                 [c0 EXCEPT !.ram.is_hourly_sleep_mode = TRUE,
                            !.rtc.last_hourly_sleep = c.now],
                 "hourly")
        ELSE c0

EmergencyTimeout(c) ==
    IF c.pc # "loop" THEN c
    ELSE IF check_timeout_safe(c.now, c.ram.last_data_received, RESET_TIMEOUT)
    THEN enter_deep_sleep(c, "emergency")
    ELSE c

ConsecutiveFailureCheck(c) ==
    IF c.pc # "loop" THEN c
    ELSE IF c.ram.consecutive_failures >= MAX_CONSECUTIVE_FAILURES
    THEN LET c1 == safe_reset_sensor(
                       Log([c EXCEPT !.obs.cf_at_check = c.ram.consecutive_failures],
                           "consecutive_failure_alert"))
             c2 == IF /\ c1.ram.consecutive_failures
                            >= MAX_CONSECUTIVE_FAILURES * 2
                      /\ is_reset_safe(c1.now, c1.ram.reset_count_this_session,
                                       c1.rtc.last_reset_time_rtc)
                   THEN reset_sensor_system(c1)
                   ELSE c1
         IN  [c2 EXCEPT !.ram.consecutive_failures = 0]
    ELSE [c EXCEPT !.obs.cf_at_check = c.ram.consecutive_failures]

PreventiveReset(c) ==
    LET operation_time == c.now \div 1000
    IN  IF c.pc # "loop" THEN c
        ELSE IF /\ operation_time > PREVENTIVE_RESET_SECONDS
                /\ operation_time % PREVENTIVE_RESET_SECONDS < PREVENTIVE_RESET_WINDOW
        THEN LET c1 == safe_reset_sensor(c)
             IN  IF /\ c1.ram.consecutive_failures > 0
                    /\ is_reset_safe(c1.now, c1.ram.reset_count_this_session,
                                     c1.rtc.last_reset_time_rtc)
                 THEN reset_sensor_system(c1)
                 ELSE c1
        ELSE c

\* ------------------------------------------------------------ loop(): sensing
Clamp(v, lo, hi) == IF v < lo THEN lo ELSE IF v > hi THEN hi ELSE v

\* Variant: the random walk of the simulated values is not kept in range.
simulate_vital_signs_unclamped(c, rand) ==
    LET stepped == ElapsedRaw(c.now, c.ram.last_simulation) > SIMULATION_INTERVAL
        b == IF stepped THEN c.ram.sim_breath + rand.breath ELSE c.ram.sim_breath
        h == IF stepped THEN c.ram.sim_heart + rand.heart ELSE c.ram.sim_heart
    IN  Log([c EXCEPT !.ram.sim_breath = b,
                      !.ram.sim_heart = h,
                      !.ram.last_simulation = IF stepped THEN c.now ELSE @,
                      !.ram.breath_rate = b,
                      !.ram.heart_rate = h],
            "simulate_vital_signs")

\* The statics sim_breath and sim_heart take a random step at most every
\* SIMULATION_INTERVAL and are kept within their ranges; the caller's
\* variables receive them.
simulate_vital_signs(c, rand) ==
    LET stepped == ElapsedRaw(c.now, c.ram.last_simulation) > SIMULATION_INTERVAL
        b == IF stepped
             THEN Clamp(c.ram.sim_breath + rand.breath,
                        SIM_BREATH_MIN, SIM_BREATH_MAX)
             ELSE c.ram.sim_breath
        h == IF stepped
             THEN Clamp(c.ram.sim_heart + rand.heart, SIM_HEART_MIN, SIM_HEART_MAX)
             ELSE c.ram.sim_heart
    IN  Log([c EXCEPT !.ram.sim_breath = b,
                      !.ram.sim_heart = h,
                      !.ram.last_simulation = IF stepped THEN c.now ELSE @,
                      !.ram.breath_rate = b,
                      !.ram.heart_rate = h],
            "simulate_vital_signs")

\* Polls the driver again; a success leaves at least one vital sign read.
get_vital_signs_robust(c, result) ==
    Log([c EXCEPT !.obs.robust_result = result,
                  !.ram.breath_rate =
                      IF result \in {"breath", "both"} THEN Reading ELSE NoData,
                  !.ram.heart_rate =
                      IF result \in {"heart", "both"} THEN Reading ELSE NoData],
        "get_vital_signs_robust")

VitalsFailedBlock(c, o, vitals_failed) ==
    IF /\ vitals_failed
       /\ ElapsedRaw(c.now, c.ram.last_vitals_failed_debug)
              > VITALS_FAILED_DEBUG_INTERVAL
    THEN LET n == U32(c.ram.consecutive_vitals_failed_count + 1)
             c1 == [c EXCEPT !.ram.consecutive_vitals_failed_count = n,
                             !.ram.last_vitals_failed_debug = c.now,
                             !.obs.vitals_reached = n]
         IN  IF n >= VITALS_ROBUST_THRESHOLD
             THEN LET c2 == IF c1.ram.distance = FarReading
                            THEN simulate_vital_signs(c1, o.rand)
                            ELSE LET c3 == get_vital_signs_robust(c1, o.robust)
                                 IN  IF o.robust = "fail"
                                     THEN simulate_vital_signs(c3, o.rand)
                                     ELSE c3
                  IN  [c2 EXCEPT !.ram.consecutive_vitals_failed_count = 0]
             ELSE c1
    ELSE IF ~vitals_failed
    THEN [c EXCEPT !.ram.consecutive_vitals_failed_count = 0]
    ELSE c

\* A call of reset_position_communication(), with what it found and what it
\* did to the budget of the resets.
Flush(c) ==
    LET c1 == reset_position_communication(c)
    IN  [c1 EXCEPT
           !.obs.flush_unsafe =
               @ \/ ~is_reset_safe(c.now, c.ram.reset_count_this_session,
                                   c.rtc.last_reset_time_rtc),
           !.obs.flush_changed_budget =
               \/ @
               \/ c1.ram.reset_count_this_session # c.ram.reset_count_this_session
               \/ c1.rtc.last_reset_time_rtc # c.rtc.last_reset_time_rtc]

\* The forced recovery at 5: flush, re-test, careful reinitialization.
ForcedRecovery(c, o) ==
    LET c1 == Flush(Log(c, "forced_recovery"))
        c2 == IF o.retest_fails >= 1
              THEN careful_sensor_reinitialization(c1, o.retest_fails < 2)
              ELSE c1
    IN  Log(c2, "verify_post_reset_functionality")

\* Variant: the diagnostics run from 3 on instead of at 3 only.
AllFailedBlock_DiagFromThree(c, o, all_data_failed) ==
    IF /\ all_data_failed
       /\ ElapsedRaw(c.now, c.ram.last_all_failed_debug) > ALL_FAILED_DEBUG_INTERVAL
    THEN LET n == U32(c.ram.consecutive_all_failed_count + 1)
             c1 == [c EXCEPT !.ram.consecutive_all_failed_count = n,
                             !.ram.last_all_failed_debug = c.now,
                             !.obs.all_reached = n]
             c2 == IF n >= ALL_FAILED_DIAG_COUNT
                   THEN test_serial_communication(c1) ELSE c1
             c3 == IF n = ALL_FAILED_TRYALL_COUNT
                   THEN test_all_reset_methods(c2, o.retest_fails) ELSE c2
             c4 == IF n >= ALL_FAILED_TRYALL_COUNT
                   THEN [c3 EXCEPT !.obs.retest_fails = o.retest_fails] ELSE c3
         IN  IF n >= ALL_FAILED_FORCE_COUNT
             THEN [ForcedRecovery(c4, o)
                       EXCEPT !.ram.consecutive_all_failed_count = 0]
             ELSE c4
    ELSE IF ~all_data_failed
    THEN [c EXCEPT !.ram.consecutive_all_failed_count = 0]
    ELSE c

\* Variant: the counter restarts only when the re-test after the flush passed.
AllFailedBlock_CountKeptOnFailure(c, o, all_data_failed) ==
    IF /\ all_data_failed
       /\ ElapsedRaw(c.now, c.ram.last_all_failed_debug) > ALL_FAILED_DEBUG_INTERVAL
    THEN LET n == U32(c.ram.consecutive_all_failed_count + 1)
             c1 == [c EXCEPT !.ram.consecutive_all_failed_count = n,
                             !.ram.last_all_failed_debug = c.now,
                             !.obs.all_reached = n]
             c2 == IF n = ALL_FAILED_DIAG_COUNT
                   THEN test_serial_communication(c1) ELSE c1
             c3 == IF n = ALL_FAILED_TRYALL_COUNT
                   THEN test_all_reset_methods(c2, o.retest_fails) ELSE c2
             c4 == IF n >= ALL_FAILED_TRYALL_COUNT
                   THEN [c3 EXCEPT !.obs.retest_fails = o.retest_fails] ELSE c3
         IN  IF n >= ALL_FAILED_FORCE_COUNT
             THEN IF o.retest_fails = 0
                  THEN [ForcedRecovery(c4, o)
                            EXCEPT !.ram.consecutive_all_failed_count = 0]
                  ELSE ForcedRecovery(c4, o)
             ELSE c4
    ELSE IF ~all_data_failed
    THEN [c EXCEPT !.ram.consecutive_all_failed_count = 0]
    ELSE c

AllFailedBlock(c, o, all_data_failed) ==
    IF /\ all_data_failed
       /\ ElapsedRaw(c.now, c.ram.last_all_failed_debug) > ALL_FAILED_DEBUG_INTERVAL
    THEN LET n == U32(c.ram.consecutive_all_failed_count + 1)
             c1 == [c EXCEPT !.ram.consecutive_all_failed_count = n,
                             !.ram.last_all_failed_debug = c.now,
                             !.obs.all_reached = n]
             c2 == IF n = ALL_FAILED_DIAG_COUNT
                   THEN test_serial_communication(c1) ELSE c1
             c3 == IF n = ALL_FAILED_TRYALL_COUNT
                   THEN test_all_reset_methods(c2, o.retest_fails) ELSE c2
             c4 == IF n >= ALL_FAILED_TRYALL_COUNT
                   THEN [c3 EXCEPT !.obs.retest_fails = o.retest_fails] ELSE c3
         IN  IF n >= ALL_FAILED_FORCE_COUNT
             THEN [ForcedRecovery(c4, o)
                       EXCEPT !.ram.consecutive_all_failed_count = 0]
             ELSE c4
    ELSE IF ~all_data_failed
    THEN [c EXCEPT !.ram.consecutive_all_failed_count = 0]
    ELSE c

\* The counter this block increments is a static of the failure branch; the
\* success branch resets another static of the same name.
NativePosition(c, o) ==
    IF o.pos = "target"
    THEN [c EXCEPT !.ram.x_position = Reading, !.ram.y_position = Reading]
    ELSE IF o.pos = "empty"
    THEN [c EXCEPT !.ram.x_position = NoData, !.ram.y_position = NoData]
    ELSE
      LET c1 == [c EXCEPT !.ram.x_position = NoData, !.ram.y_position = NoData]
      IN  IF ElapsedRaw(c.now, c.ram.last_position_fail_debug)
                 > POSITION_FAIL_DEBUG_INTERVAL
          THEN LET n == U32(c.ram.consecutive_position_failures + 1)
                   c2 == [c1 EXCEPT !.ram.last_position_fail_debug = c.now,
                                    !.obs.pos_reached = n]
               IN  IF n >= POSITION_FAIL_FLUSH_COUNT
                   THEN [Flush(c2)
                             EXCEPT !.ram.consecutive_position_failures = 0]
                   ELSE [c2 EXCEPT !.ram.consecutive_position_failures = n]
          ELSE c1

FallbackPosition(c) ==
    IF /\ c.ram.x_position = NoData /\ c.ram.y_position = NoData
       /\ c.ram.distance > NoData
       /\ ElapsedRaw(c.now, c.ram.last_fallback_update) > FALLBACK_UPDATE_INTERVAL
    THEN Log([c EXCEPT !.ram.last_fallback_update = c.now,
                       !.ram.x_position = Reading,
                       !.ram.y_position = Reading],
             "fallback_position")
    ELSE c

\* The telemetry record: four numbers and nothing else.
send_formatted_data(c) ==
    Log([c EXCEPT !.obs.sent =
             Append(@, [ breath_rate |-> c.ram.breath_rate,
                         heart_rate |-> c.ram.heart_rate,
                         x_position |-> c.ram.x_position,
                         y_position |-> c.ram.y_position ])],
        "send_formatted_data")

ReadingSucceeded(c, o) ==
    LET c0 == [c EXCEPT !.ram.successful_readings = U32(@ + 1),
                        !.ram.consecutive_failures = 0,
                        !.ram.last_data_received = c.now,
                        !.obs.last_success = c.now,
                        !.ram.breath_rate = o.breath,
                        !.ram.heart_rate = o.heart,
                        !.ram.distance = o.dist,
                        !.ram.x_position = NoData,
                        !.ram.y_position = NoData]
        vitals_failed == o.breath = NoData /\ o.heart = NoData
        all_data_failed == vitals_failed /\ o.dist = NoData
    IN  CHOOSE r \in
            { send_formatted_data(c5) : c5 \in
            { FallbackPosition(c4) : c4 \in
            { NativePosition(c3, o) : c3 \in
            { AllFailedBlock(c2, o, all_data_failed) : c2 \in
            { VitalsFailedBlock(c1, o, vitals_failed) : c1 \in { c0 } } } } } } : TRUE

\* Variant: the failure count is kept when the safe reset is requested.
ReadingFailed_keeping_failures(c) ==
    LET n == U32(c.ram.consecutive_failures + 1)
        c0 == [c EXCEPT !.ram.failed_readings = U32(@ + 1),
                        !.ram.consecutive_failures = n]
        c1 == IF n = 1 \/ n % FAILURE_LOG_EVERY = 0
              THEN Log(c0, "failure_logged") ELSE c0
    IN  IF n >= FAILURES_TEST_COMM
        THEN LET c2 == test_serial_communication(c1)
             IN  IF n >= FAILURES_SAFE_RESET
                 THEN safe_reset_sensor(c2)
                 ELSE c2
        ELSE c1

\* Variant: a failed update() is not counted among the failed readings.
ReadingFailed_uncounted(c) ==
    LET n == U32(c.ram.consecutive_failures + 1)
        c0 == [c EXCEPT !.ram.consecutive_failures = n]
        c1 == IF n = 1 \/ n % FAILURE_LOG_EVERY = 0
              THEN Log(c0, "failure_logged") ELSE c0
    IN  IF n >= FAILURES_TEST_COMM
        THEN LET c2 == test_serial_communication(c1)
             IN  IF n >= FAILURES_SAFE_RESET
                 THEN [safe_reset_sensor(c2) EXCEPT !.ram.consecutive_failures = 0]
                 ELSE c2
        ELSE c1

ReadingFailed(c) ==
    LET n == U32(c.ram.consecutive_failures + 1)
        c0 == [c EXCEPT !.ram.failed_readings = U32(@ + 1),
                        !.ram.consecutive_failures = n]
        c1 == IF n = 1 \/ n % FAILURE_LOG_EVERY = 0
              THEN Log(c0, "failure_logged") ELSE c0
    IN  IF n >= FAILURES_TEST_COMM
        THEN LET c2 == test_serial_communication(c1)
             IN  IF n >= FAILURES_SAFE_RESET
                 THEN [safe_reset_sensor(c2) EXCEPT !.ram.consecutive_failures = 0]
                 ELSE c2
        ELSE c1

\* Lengths of the current runs of each failure condition (observation).
RunCap == 8

Bump(n) == IF n >= RunCap THEN RunCap ELSE n + 1

CountRuns(run, o) ==
    IF ~o.update
    THEN [run EXCEPT !.update = Bump(@)]
    ELSE [ update |-> 0,
           vitals |-> IF o.breath = NoData /\ o.heart = NoData
                      THEN Bump(run.vitals) ELSE 0,
           all |-> IF o.breath = NoData /\ o.heart = NoData /\ o.dist = NoData
                   THEN Bump(run.all) ELSE 0,
           position |-> IF o.pos = "fail" THEN Bump(run.position) ELSE 0 ]

\* Severity tier of a recovery action (0: not a recovery action).
TierOf(a) ==
    IF a \in { "reset_position_communication", "attempt_position_recovery" }
    THEN 1
    ELSE IF a \in { "reset_sensor_via_serial", "careful_sensor_reinitialization",
                    "reset_sensor_system" } THEN 2
    ELSE IF a = "force_complete_sensor_reinitialization" THEN 3
    ELSE 0

TiersIn(s) == { TierOf(s[i]) : i \in DOMAIN s } \ {0}

DiagCap == 2

\* What the sensing stage of an iteration adds to the observations.
ObserveReading(c1, o) ==
    LET all_data_failed ==
            o.breath = NoData /\ o.heart = NoData /\ o.dist = NoData
        diag == \E i \in DOMAIN c1.acts :
                    c1.acts[i] = "test_serial_communication"
        tier3 == \E i \in DOMAIN c1.acts :
                     c1.acts[i] = "force_complete_sensor_reinitialization"
        substituted == \E i \in DOMAIN c1.acts :
                           c1.acts[i] = "fallback_position"
        fresh == /\ o.update
                 /\ ~(all_data_failed /\ o.pos # "target")
    IN  [c1 EXCEPT
           !.obs.since_fresh =
               IF fresh THEN TickStep
               ELSE Saturate(@ + TickStep, RESET_TIMEOUT + 2 * TickStep),
           !.obs.synthetic_pos = IF o.update THEN substituted ELSE @,
           !.obs.wd_since_success = IF o.update THEN 0 ELSE @,
           !.obs.fallback_run =
               IF tier3 \/ (o.update /\ o.pos # "fail") THEN 0
               ELSE IF substituted THEN Bump(@)
               ELSE @,
           !.obs.run = CountRuns(@, o),
           !.obs.tiers_update =
               IF o.update THEN {} ELSE @ \cup TiersIn(c1.acts),
           !.obs.diag_in_streak =
               IF ~o.update THEN @
               ELSE IF ~all_data_failed THEN 0
               ELSE IF diag /\ @ < DiagCap THEN @ + 1
               ELSE @]

SensorReading(c, o) ==
    IF c.pc # "loop" THEN c
    ELSE CHOOSE r \in
             { ObserveReading(c1, o) : c1 \in
             { IF o.update THEN ReadingSucceeded(c, o) ELSE ReadingFailed(c) } } :
             TRUE

\* One iteration of loop(), block after block.
\* (Each block takes the state the block before it left, computed once.)
LoopBody(c, o) ==
    CHOOSE r \in
        { SensorReading(c8, o) : c8 \in
        { PreventiveReset(c7) : c7 \in
        { ConsecutiveFailureCheck(c6) : c6 \in
        { EmergencyTimeout(c5) : c5 \in
        { HourlyDeepSleep(c4) : c4 \in
        { PositionRecoveryRetry(c3) : c3 \in
        { CompleteFailureWatchdog(c2) : c2 \in
        { PeriodicSerialCheck(c1, o) : c1 \in
        { PeriodicDiagnostic(c0, o) : c0 \in
        { [c EXCEPT !.ram.total_loops = U32(@ + 1)] } } } } } } } } } } : TRUE

\* ------------------------------------------------------------ actions
SetupTimes == { k * TickStep : k \in 1..MaxSetupTicks }

\* setup(): runs on a cold boot and on every wake-up from deep sleep.
\* Variant: the wake-up branch reinitializes only when the flag is set.
SetupBody_ReinitOnlyOnFlag(c, woke, test_after_config) ==
    LET c1 == Log(Log([c EXCEPT !.rtc.bootCount = @ + 1], "serial_begin"),
                  "driver_begin")
        c2 == [c1 EXCEPT !.ram.last_data_received = c.now,
                         !.ram.last_diagnostic_time = c.now,
                         !.ram.last_serial_check = c.now,
                         !.obs.last_success = c.now,
                         !.obs.flag_at_setup = c.ram.is_hourly_sleep_mode]
        c3 == IF woke /\ c2.ram.is_hourly_sleep_mode
              THEN reset_sensor_system(
                       [c2 EXCEPT !.ram.is_hourly_sleep_mode = FALSE])
              ELSE c2
        c4 == Log(c3, "configure_sensor_continuous_mode")
    IN  IF ~test_after_config
        THEN Log(c4, "configure_sensor_continuous_mode_ascii")
        ELSE c4

SetupBody(c, woke, test_after_config) ==
    LET c1 == Log(Log([c EXCEPT !.rtc.bootCount = @ + 1], "serial_begin"),
                  "driver_begin")
        c2 == [c1 EXCEPT !.ram.last_data_received = c.now,
                         !.ram.last_diagnostic_time = c.now,
                         !.ram.last_serial_check = c.now,
                         !.obs.last_success = c.now,
                         !.obs.flag_at_setup = c.ram.is_hourly_sleep_mode]
        c3 == IF woke
              THEN IF c2.ram.is_hourly_sleep_mode
                   THEN reset_sensor_system(
                            [c2 EXCEPT !.ram.is_hourly_sleep_mode = FALSE])
                   ELSE reset_sensor_system(c2)
              ELSE c2
        c4 == Log(c3, "configure_sensor_continuous_mode")
    IN  IF ~test_after_config
        THEN Log(c4, "configure_sensor_continuous_mode_ascii")
        ELSE c4

Setup ==
    /\ pc = "setup"
    /\ rtc.bootCount < MaxBoots
    /\ \E d \in SetupTimes, test_after_config \in BOOLEAN :
         \E c \in { SetupBody(Ctx, wake = "timer", test_after_config) } :
             /\ rtc' = c.rtc
             /\ ram' = c.ram
             /\ acts' = c.acts
             /\ now' = U32(now + d)
             /\ obs' = [c.obs EXCEPT
                          !.step = "setup",
                          !.since_fresh = d,
                          !.boot_acts = c.acts,
                          !.elapsed_reset = obs.since_reset,
                          !.elapsed_sched = obs.since_sched,
                          !.since_reset = Advance(@, d, MIN_RESET_INTERVAL),
                          !.since_sched = Advance(@, d, HOURLY_SLEEP_INTERVAL)]
    /\ pc' = "loop"
    /\ UNCHANGED <<wake, sensor, probe, rx>>

Loop(o) ==
    /\ pc = "loop"
    /\ \E c \in { LoopBody([Ctx EXCEPT !.obs.silence = now - obs.last_success], o) } :
       LET reset_done == \E i \in DOMAIN c.acts : c.acts[i] = "reset_authorized"
           hourly == c.pc = "sleep" /\ c.obs.sleep_kind = "hourly"
           d == IF c.pc = "loop" THEN TickStep ELSE 0
       IN  /\ rtc' = c.rtc
           /\ ram' = c.ram
           /\ pc' = c.pc
           /\ acts' = c.acts
           /\ now' = U32(now + d)
           /\ obs' = [c.obs EXCEPT
                        !.step = IF c.pc = "loop" THEN "cycle" ELSE "suspend",
                        !.elapsed_reset = obs.since_reset,
                        !.elapsed_sched = obs.since_sched,
                        !.since_reset =
                            IF reset_done THEN d
                            ELSE Advance(@, d, MIN_RESET_INTERVAL),
                        !.since_sched =
                            IF hourly THEN 0
                            ELSE Advance(@, d, HOURLY_SLEEP_INTERVAL)]
    /\ UNCHANGED <<wake, probe, rx>>

\* The timer wake-up: execution restarts at setup() with millis() at 0, the
\* RTC variables kept and every other variable back at its initializer.
Resume ==
    /\ pc = "sleep"
    /\ rtc' = rtc
    /\ ram' = RamInit
    /\ now' = 0
    /\ pc' = "setup"
    /\ wake' = "timer"
    /\ acts' = << >>
    /\ obs' = [obs EXCEPT
                 !.step = "resume",
                 !.run = ObsInit.run,
                 !.wd_since_success = 0,
                 !.fallback_run = 0,
                 !.since_fresh = 0,
                 !.wd_zero_run = 0,
                 !.synthetic_pos = FALSE,
                 !.tiers_update = {},
                 !.diag_in_streak = 0,
                 !.boot_acts = << >>,
                 !.last_success = 0,
                 !.elapsed_reset = obs.since_reset,
                 !.elapsed_sched = obs.since_sched,
                 !.since_reset =
                     Advance(@, DEEP_SLEEP_DURATION \div 1000, MIN_RESET_INTERVAL),
                 !.since_sched =
                     Advance(@, DEEP_SLEEP_DURATION \div 1000, HOURLY_SLEEP_INTERVAL)]
    /\ UNCHANGED <<sensor, probe, rx>>

NoProbe == [ mark |-> 0, timeout |-> 0, elapsed |-> 0, due |-> FALSE, done |-> FALSE ]

Init ==
    /\ rtc = RtcInit
    /\ ram = RamInit
    /\ now = 0
    /\ pc = "setup"
    /\ wake = "cold"
    /\ acts = << >>
    /\ obs = ObsInit
    /\ sensor \in [ mode : Modes, changed : {FALSE} ]
    /\ probe = NoProbe
    /\ rx = 0

\* One loop() iteration with the sensor in condition m.  The condition is
\* any of Modes at power-up and changes at most once in a run, before any
\* iteration.
Cycle ==
    \E m \in Modes :
        /\ m = sensor.mode \/ ~sensor.changed
        /\ Loop(OutcomeOf(m))
        /\ sensor' = [ mode |-> m, changed |-> sensor.changed \/ m # sensor.mode ]

Next == Setup \/ Cycle \/ Resume

Spec == Init /\ [][Next]_vars

\* ------------------------------------------------------------ free cycles
\* One boot in which every iteration may see any of these driver results.
MaxCycles == 5

NoVitals(d, p, rb) == Outcome(TRUE, NoData, NoData, d, p, TRUE, rb, 0)

CycleOutcomes ==
    { Healthy, Dead,
      Outcome(TRUE, NoData, NoData, NoData, "fail", FALSE, "fail", 0),
      Outcome(TRUE, NoData, NoData, NoData, "fail", FALSE, "fail", 1),
      Mute,
      NoVitals(NoData, "target", "fail"),
      NoVitals(Reading, "target", "both"),
      NoVitals(Reading, "empty", "fail"),
      NoVitals(FarReading, "target", "both") }

InitCycles ==
    /\ rtc = RtcInit
    /\ ram = RamInit
    /\ now = 0
    /\ pc = "setup"
    /\ wake = "cold"
    /\ acts = << >>
    /\ obs = ObsInit
    /\ sensor = [ mode |-> "healthy", changed |-> FALSE ]
    /\ probe = NoProbe
    /\ rx = 0

AnyCycle ==
    /\ now < (MaxSetupTicks + MaxCycles) * TickStep
    /\ \E o \in CycleOutcomes : Loop(o)
    /\ UNCHANGED sensor

NextCycles == Setup \/ AnyCycle

SpecCycles == InitCycles /\ [][NextCycles]_vars

\* ------------------------------------------------------------ position query
\* One boot in which the position query of any iteration may fail while
\* everything else is read.
MaxPositionCycles == 9

PositionCycle ==
    /\ now < (MaxSetupTicks + MaxPositionCycles) * TickStep
    /\ \E o \in { Healthy, NoPosition } : Loop(o)
    /\ UNCHANGED sensor

NextPosition == Setup \/ PositionCycle

SpecPosition == InitCycles /\ [][NextPosition]_vars

\* ------------------------------------------------------------ vital signs
\* One boot in which the vital signs of any iteration may be missing, with
\* random() free to return any value of its range.
MaxVitalsCycles == 14

VitalsOutcomes ==
    { NoVitals(Reading, "target", "both"),
      NoVitals(Reading, "target", "fail"),
      NoVitals(FarReading, "target", "both") }

\* random(-2, 3) in full; of random(-5, 6) the two ends and the middle.
RandomDraws ==
    [ breath : (-SIM_BREATH_STEP)..SIM_BREATH_STEP,
      heart : { -SIM_HEART_STEP, 0, SIM_HEART_STEP } ]

VitalsCycle ==
    /\ now < (MaxSetupTicks + MaxVitalsCycles) * TickStep
    /\ \E o \in VitalsOutcomes, rand \in RandomDraws :
           Loop([o EXCEPT !.rand = rand])
    /\ UNCHANGED sensor

NextVitals == Setup \/ VitalsCycle

SpecVitals == InitCycles /\ [][NextVitals]_vars

\* ------------------------------------------------------------ failure counting
\* One boot in which update() of any iteration may fail and the UART may stay
\* silent during any serial check.
MaxFailureCycles == 34

FailureOutcomes ==
    { [o EXCEPT !.serial_resp = r] : o \in { Healthy, Dead }, r \in BOOLEAN }

FailureCycle ==
    /\ now < (MaxSetupTicks + MaxFailureCycles) * TickStep
    /\ \E o \in FailureOutcomes : Loop(o)
    /\ UNCHANGED sensor

NextFailures == Setup \/ FailureCycle

SpecFailures == InitCycles /\ [][NextFailures]_vars

\* ------------------------------------------------------------ timer calls
\* Tick values within EdgeSpan of either end of the counter's range.
EdgeTicks == (0..EdgeSpan) \cup ((MAX_TICK - EdgeSpan)..MAX_TICK)

ProbeTimeouts == (0..EdgeSpan) \cup { HOURLY_SLEEP_INTERVAL }

InitTimer ==
    /\ rtc = RtcInit
    /\ ram = RamInit
    /\ now \in EdgeTicks
    /\ pc = "probe"
    /\ wake = "cold"
    /\ acts = << >>
    /\ obs = ObsInit
    /\ sensor = [ mode |-> "healthy", changed |-> FALSE ]
    /\ probe \in [ mark : EdgeTicks, timeout : ProbeTimeouts, elapsed : {0},
                   due : {FALSE}, done : {FALSE} ]
    /\ rx = 0

\* check_timeout_safe(probe.mark, probe.timeout) called at tick now.
CallCheckTimeoutSafe ==
    /\ pc = "probe"
    /\ ~probe.done
    /\ probe' = [probe EXCEPT
                   !.elapsed = ElapsedSafe(now, probe.mark),
                   !.due = check_timeout_safe(now, probe.mark, probe.timeout),
                   !.done = TRUE]
    /\ UNCHANGED <<rtc, ram, now, pc, wake, acts, obs, sensor, rx>>

\* get_time_until_next_sleep() called at tick now with last_hourly_sleep = probe.mark.
CallGetTimeUntilNextSleep ==
    /\ pc = "probe"
    /\ ~probe.done
    /\ probe' = [probe EXCEPT
                   !.elapsed = HOURLY_SLEEP_INTERVAL
                                 - get_time_until_next_sleep(now, probe.mark),
                   !.due = get_time_until_next_sleep(now, probe.mark) = 0,
                   !.timeout = HOURLY_SLEEP_INTERVAL,
                   !.done = TRUE]
    /\ UNCHANGED <<rtc, ram, now, pc, wake, acts, obs, sensor, rx>>

NextTimer == CallCheckTimeoutSafe \/ CallGetTimeUntilNextSleep

SpecTimer == InitTimer /\ [][NextTimer]_vars

\* ------------------------------------------------------------ reset requests
\* One call of safe_reset_sensor() at tick now, with the mark and the count
\* left by earlier resets.
RequestTicks ==
    (MIN_RESET_INTERVAL - EdgeSpan)..(MIN_RESET_INTERVAL + 2 * EdgeSpan)

InitBudget ==
    /\ rtc \in [ bootCount : {1}, last_hourly_sleep : {0},
                 last_reset_time_rtc : 0..EdgeSpan ]
    /\ ram \in { [RamInit EXCEPT !.reset_count_this_session = n,
                                 !.consecutive_failures = FAILURES_SAFE_RESET] :
                   n \in 0..(MAX_RESETS_PER_SESSION - 1) }
    /\ now \in RequestTicks
    /\ pc = "request"
    /\ wake = "cold"
    /\ acts = << >>
    /\ obs = ObsInit
    /\ sensor = [ mode |-> "dead", changed |-> FALSE ]
    /\ probe = [NoProbe EXCEPT !.mark = rtc.last_reset_time_rtc]
    /\ rx = 0

CallSafeResetSensor ==
    /\ pc = "request"
    /\ \E c \in { safe_reset_sensor(Ctx) } :
           /\ rtc' = c.rtc
           /\ ram' = c.ram
           /\ acts' = c.acts
           /\ obs' = c.obs
    /\ pc' = "requested"
    /\ UNCHANGED <<now, wake, sensor, probe, rx>>

NextBudget == CallSafeResetSensor

SpecBudget == InitBudget /\ [][NextBudget]_vars

\* ------------------------------------------------------------ buffer drains
\* The loop "while (mmWaveSerial.available()) { mmWaveSerial.read(); }" of a
\* recovery action, with the sensor free to deliver a byte between any two
\* iterations.  RxCap stands for the capacity of the receive buffer.
RxCap == 8

\* Recovery actions that drain the buffer with such a loop, themselves or in
\* the configuration routine they call.
DrainingActions ==
    { "reset_position_communication", "reset_radar_tiny_frame",
      "reset_radar_ascii", "careful_sensor_reinitialization",
      "attempt_position_recovery", "reset_sensor_system",
      "force_complete_sensor_reinitialization" }

InitDrain ==
    /\ rtc = RtcInit
    /\ ram = RamInit
    /\ now = 0
    /\ pc = "drain"
    /\ wake = "cold"
    /\ acts \in { <<f>> : f \in DrainingActions }
    /\ obs = ObsInit
    /\ sensor = [ mode |-> "healthy", changed |-> FALSE ]
    /\ probe = NoProbe
    /\ rx \in 0..RxCap

\* available() returned non-zero: read() takes one byte out.
DrainRead ==
    /\ pc = "drain"
    /\ rx > 0
    /\ rx' = rx - 1
    /\ UNCHANGED <<rtc, ram, now, pc, wake, acts, obs, sensor, probe>>

\* available() returned zero: the loop ends and the action goes on to return.
DrainExit ==
    /\ pc = "drain"
    /\ rx = 0
    /\ pc' = "returned"
    /\ UNCHANGED <<rtc, ram, now, wake, acts, obs, sensor, probe, rx>>

\* The UART receives a byte from the sensor.
ByteArrives ==
    /\ pc \in { "drain", "returned" }
    /\ rx < RxCap
    /\ rx' = rx + 1
    /\ UNCHANGED <<rtc, ram, now, pc, wake, acts, obs, sensor, probe>>

NextDrain == DrainRead \/ DrainExit \/ ByteArrives

\* The program keeps executing its loop; the sensor owes nothing.
SpecDrain == InitDrain /\ [][NextDrain]_vars /\ WF_vars(DrainRead \/ DrainExit)

\* ------------------------------------------------------------ properties
Did(a) == \E i \in DOMAIN acts : acts[i] = a

\* Tier 2 (link restart) and tier 3 (full reinitialization) actions.
ResetClass ==
    { "reset_sensor_via_serial", "careful_sensor_reinitialization",
      "reset_sensor_system", "force_complete_sensor_reinitialization" }

ResetClassExecuted == \E i \in DOMAIN acts : acts[i] \in ResetClass

InLoop == obs.step \in { "cycle", "suspend" }

\* C2: no tier 2-3 action runs in loop() less than MIN_RESET_INTERVAL of wall
\* time after last_reset_time_rtc was written by an executed reset, in the
\* boot that wrote it or in a later one.
C2_NoResetWithinInterval ==
    (InLoop /\ ResetClassExecuted /\ obs.elapsed_reset >= 0)
        => obs.elapsed_reset >= MIN_RESET_INTERVAL

\* C3: a reset request the budget denies performs no device action and leaves
\* consecutive_failures as it was when safe_reset_sensor was called.
C3_DenialLeavesCounters ==
    Did("reset_denied")
        => /\ ram.consecutive_failures = obs.req_cf
           /\ ~Did("reset_sensor_via_serial")

\* C4: after every completed iteration each category's counter is the length of
\* the current unbroken run of that category's failure condition (and so 0
\* after a cycle in which the condition is false).
CounterIsRun(counter, run) == run < RunCap => counter = run

C4_CountersAreRunLengths ==
    obs.step = "cycle"
        => /\ CounterIsRun(ram.consecutive_failures, obs.run.update)
           /\ CounterIsRun(ram.consecutive_vitals_failed_count, obs.run.vitals)
           /\ CounterIsRun(ram.consecutive_all_failed_count, obs.run.all)
           /\ CounterIsRun(ram.consecutive_position_failures, obs.run.position)

\* C5: when now < mark the elapsed time the wraparound branch computes is the
\* wrapped distance (now - mark) mod 2^w.
C5_WrapBranchIsWrappedDistance ==
    (probe.done /\ now < probe.mark /\ probe.timeout # HOURLY_SLEEP_INTERVAL)
        => probe.elapsed = (now - probe.mark) % TickMod

\* C6: every hourly suspend but the first is entered at least
\* HOURLY_SLEEP_INTERVAL of wall time after the previous hourly suspend.
C6_HourBetweenHourlySuspends ==
    (obs.step = "suspend" /\ obs.sleep_kind = "hourly" /\ obs.elapsed_sched >= 0)
        => obs.elapsed_sched >= HOURLY_SLEEP_INTERVAL

\* C7: the hourly suspend stamps last_hourly_sleep with the current tick and
\* sets is_hourly_sleep_mode before esp_deep_sleep_start, and setup() finds the
\* flag still set on the wake-up that follows.
C7_FlagSetAndSeenOnWake ==
    /\ (obs.step = "suspend" /\ obs.sleep_kind = "hourly")
           => (rtc.last_hourly_sleep = now /\ obs.flag_at_sleep)
    /\ (obs.step = "setup" /\ obs.sleep_kind = "hourly") => obs.flag_at_setup

Has(s, a) == \E i \in DOMAIN s : s[i] = a

\* The link is (re)started and the sensor's reporting mode is configured.
FullReinit(s) ==
    /\ Has(s, "serial_begin")
    /\ Has(s, "driver_begin")
    /\ Has(s, "configure_sensor_continuous_mode")

\* C8: every boot (cold, or wake from either suspend) restarts the link and
\* configures the sensor mode in setup(), a wake also runs
\* reset_sensor_system, all before any iteration of loop() reports a reading,
\* and is_hourly_sleep_mode is false when setup() has finished.
C8_StartupReinitializes ==
    /\ obs.step = "setup"
           => /\ FullReinit(acts)
              /\ wake = "timer" => Did("reset_sensor_system")
              /\ ~Did("send_formatted_data")
              /\ ~ram.is_hourly_sleep_mode
    /\ InLoop
           => /\ FullReinit(obs.boot_acts)
              /\ wake = "timer" => Has(obs.boot_acts, "reset_sensor_system")

\* A wake from the emergency suspend has gone through setup().
C8_Witness ==
    /\ obs.step = "setup"
    /\ wake = "timer"
    /\ obs.sleep_kind = "emergency"
    /\ Did("reset_sensor_system")
    /\ Did("configure_sensor_continuous_mode")

\* C9: an iteration of loop() that starts more than RESET_TIMEOUT after the
\* last successful update() of this boot, with the hourly period not elapsed,
\* enters the emergency suspend; so an active node is never silent for more
\* than RESET_TIMEOUT plus one iteration, whatever recovery actions ran.
C9_SilenceEndsInEmergencySuspend ==
    /\ (InLoop /\ obs.silence > RESET_TIMEOUT /\ ~obs.hourly_due)
           => (pc = "sleep" /\ obs.sleep_kind = "emergency")
    /\ pc = "loop" => now - obs.last_success <= RESET_TIMEOUT + TickStep

\* Emergency suspend entered after recovery actions were tried in vain.
C9_Witness ==
    /\ obs.step = "suspend"
    /\ obs.sleep_kind = "emergency"
    /\ obs.silence > RESET_TIMEOUT
    /\ ~obs.hourly_due
    /\ rtc.last_reset_time_rtc > 0

\* C10: last_hourly_sleep changes only in the step that enters the hourly
\* suspend.
C10_MarkChangesOnlyOnHourlySuspend ==
    [][ rtc'.last_hourly_sleep # rtc.last_hourly_sleep
          => /\ pc = "loop"
             /\ pc' = "sleep"
             /\ obs'.sleep_kind = "hourly" ]_vars

\* An emergency suspend entered while a mark written by an earlier hourly
\* suspend is in place.
C10_Witness ==
    /\ obs.step = "suspend"
    /\ obs.sleep_kind = "emergency"
    /\ rtc.last_hourly_sleep > 0
    /\ rtc.last_hourly_sleep < now

\* C11: once update() has failed in 5 consecutive iterations, tier 1, tier 2
\* and tier 3 recovery actions have all run during that run of failures and
\* consecutive_all_failed_count is 0.
C11_FiveUpdateFailuresEscalate ==
    (obs.step = "cycle" /\ obs.run.update = ALL_FAILED_FORCE_COUNT)
        => /\ {1, 2, 3} \subseteq obs.tiers_update
           /\ ram.consecutive_all_failed_count = 0

\* What ran in this iteration after the entry named m.
AfterMark(s, m) ==
    { s[j] : j \in { k \in DOMAIN s : \E i \in DOMAIN s : s[i] = m /\ i < k } }

\* C12: the recovery forced when consecutive_all_failed_count reaches 5 is a
\* tier 3 action (full reinitialization).
C12_ForcedRecoveryIsTierThree ==
    Did("forced_recovery")
        => \E a \in AfterMark(acts, "forced_recovery") : TierOf(a) = 3

\* C13: consecutive_all_failed_count is never incremented beyond 5, reaching 5
\* forces the recovery and zeroes the counter in the same iteration whatever
\* the re-tests returned, and the counter is at most 4 between iterations.
C13_AllFailedCountRestartsAtFive ==
    /\ obs.all_reached <= ALL_FAILED_FORCE_COUNT
    /\ ram.consecutive_all_failed_count < ALL_FAILED_FORCE_COUNT
    /\ obs.all_reached = ALL_FAILED_FORCE_COUNT
           => (Did("forced_recovery") /\ ram.consecutive_all_failed_count = 0)

\* The counter reached 5 and the link restart of the forced recovery ran.
C13_Witness ==
    /\ obs.all_reached = ALL_FAILED_FORCE_COUNT
    /\ Did("careful_sensor_reinitialization")
    /\ ram.consecutive_all_failed_count = 0

\* C14 as stated: in one unbroken all-data-failed streak the diagnostics of
\* the escalation (test_serial_communication at 3) run no more than once.
C14_DiagnosticsOncePerStreak == obs.diag_in_streak <= 1

\* C14 amended: in an iteration whose update() succeeds, the diagnostics run
\* exactly when consecutive_all_failed_count becomes 3, test_all_reset_methods
\* exactly when it becomes 4 and the forced recovery exactly when it becomes 5;
\* the counter then restarts, so a streak that lasts longer repeats the
\* sequence in the same order.
C14_EscalationFollowsCounter ==
    (obs.step = "cycle" /\ Did("send_formatted_data"))
        => /\ Did("test_serial_communication")
                <=> obs.all_reached = ALL_FAILED_DIAG_COUNT
           /\ Did("reset_radar_tiny_frame")
                <=> obs.all_reached = ALL_FAILED_TRYALL_COUNT
           /\ Did("forced_recovery")
                <=> obs.all_reached = ALL_FAILED_FORCE_COUNT
           /\ obs.all_reached \in
                  { 0, ram.consecutive_all_failed_count, ALL_FAILED_FORCE_COUNT }

\* The diagnostics run for the second time in one streak, at 3 again.
C14_Witness ==
    /\ obs.diag_in_streak = 2
    /\ obs.all_reached = ALL_FAILED_DIAG_COUNT
    /\ Did("test_serial_communication")

\* C15: inside test_all_reset_methods and inside the forced recovery the next,
\* more invasive action is called exactly when the update() after the previous
\* action failed.
RestartedInTryAll ==
    "reset_sensor_via_serial" \in AfterMark(acts, "reset_radar_tiny_frame")

CarefulCalled == Did("careful_sensor_reinitialization") \/ Did("careful_skipped")

C16_RobustReadAtTwo ==
    obs.vitals_reached = VITALS_ROBUST_THRESHOLD => Did("get_vital_signs_robust")

\* C17: an iteration counted by consecutive_all_failed_count is one in which
\* the position query returned no target.
C17_AllFailedMeansNoPosition ==
    (obs.step = "cycle" /\ obs.all_reached > 0)
        => (ram.x_position = NoData /\ ram.y_position = NoData)

\* C18: consecutive_failures is not set to 0 in an iteration in which
\* update() failed: at the end of such an iteration it counts at least that
\* failure.
C18_CounterKeptWhileFailing ==
    (obs.step = "cycle" /\ obs.run.update >= 1) => ram.consecutive_failures > 0

\* C19: a step in which the budget authorizes a reset raises
\* reset_count_this_session by exactly 1, stamps last_reset_time_rtc with the
\* tick of the request and runs the link restart; loop() runs no
\* reset_sensor_system, whose guarded calls update neither field.
C19_AuthorizedResetUpdatesBudget ==
    [][ /\ Has(acts', "reset_authorized")
            => /\ ram'.reset_count_this_session = ram.reset_count_this_session + 1
               /\ rtc'.last_reset_time_rtc = now
               /\ Has(acts', "reset_sensor_via_serial")
        /\ pc = "loop" => ~Has(acts', "reset_sensor_system") ]_vars

\* An authorized reset has just run: counted, and stamped with its tick.
C19_Witness ==
    /\ obs.step = "cycle"
    /\ Did("reset_authorized")
    /\ Did("reset_sensor_via_serial")
    /\ ram.reset_count_this_session = 1
    /\ rtc.last_reset_time_rtc + TickStep = now

\* C20: a request below the session cap is executed when exactly
\* MIN_RESET_INTERVAL has elapsed since last_reset_time_rtc and denied one
\* tick earlier.
C20_ExecutedAtIntervalDeniedBefore ==
    pc = "requested"
        => /\ now - probe.mark = MIN_RESET_INTERVAL
                => /\ Did("reset_authorized")
                   /\ Did("reset_sensor_via_serial")
                   /\ rtc.last_reset_time_rtc = now
           /\ now - probe.mark = MIN_RESET_INTERVAL - 1
                => /\ Did("reset_denied")
                   /\ ~Did("reset_sensor_via_serial")
                   /\ rtc.last_reset_time_rtc = probe.mark

\* The request made exactly MIN_RESET_INTERVAL after a reset at a non-zero
\* tick, executed.
C20_Witness ==
    /\ pc = "requested"
    /\ probe.mark > 0
    /\ now - probe.mark = MIN_RESET_INTERVAL
    /\ Did("reset_authorized")


\* C21: on resume every persisted variable (boot count, last scheduled-sleep
\* mark, last reset time, reset count, scheduled-wake flag) has the value it
\* had when the suspend primitive was invoked.
C21_PersistedValuesKeptOnResume ==
    obs.step = "resume" =>
        /\ rtc = obs.rtc_at_sleep
        /\ ram.reset_count_this_session = obs.count_at_sleep
        /\ ram.is_hourly_sleep_mode = obs.flag_at_sleep

\* C22: at every timer comparison of a loop iteration the mark compared is
\* not ahead of the current tick, after a resume included.
C22_MarksNotAheadOfClock ==
    InLoop => obs.future_marks = {}

\* C23: check_timeout_safe(mark, period) returns true when the elapsed time
\* equals the period.
C23_DueWhenElapsedEqualsPeriod ==
    ( /\ probe.done
      /\ probe.timeout # HOURLY_SLEEP_INTERVAL
      /\ now >= probe.mark
      /\ now - probe.mark = probe.timeout ) => probe.due

\* The iteration entered deep sleep from the given call site of loop().
SuspendedFrom(kind) == pc = "sleep" /\ obs.sleep_kind = kind

RecoveryActions ==
    ResetClass \cup { "reset_position_communication", "attempt_position_recovery" }

\* C24: deep sleep is entered only from the sleep stage of a loop iteration
\* (the hourly check and the data timeout that follows it), as the last
\* thing the iteration does and never from inside a recovery action, and the
\* persisted variables hold their final values when it is entered.
C24_SuspendOnlyAtSleepStage ==
    /\ pc = "sleep" =>
          /\ SuspendedFrom("hourly") \/ SuspendedFrom("emergency")
          /\ Len(acts) >= 1
          /\ acts[Len(acts)] = "enter_deep_sleep"
          /\ \A i \in 1..(Len(acts) - 1) : acts[i] # "enter_deep_sleep"
          /\ rtc = obs.rtc_at_sleep
          /\ ram.reset_count_this_session = obs.count_at_sleep
          /\ ram.is_hourly_sleep_mode = obs.flag_at_sleep
          /\ SuspendedFrom("hourly") =>
                 (rtc.last_hourly_sleep = now /\ ram.is_hourly_sleep_mode)
    /\ pc # "sleep" => ~Did("enter_deep_sleep")

C24_Witness ==
    /\ pc = "sleep"
    /\ \E i \in DOMAIN acts : acts[i] \in RecoveryActions

\* C25: without a successful update() in between, complete_failure_count is
\* not incremented a second time on the same last-known values.
C25_NoSecondIncrementWithoutSensing ==
    obs.wd_since_success <= 1

\* Iterations the retry block needs to force the full reinitialization: the
\* first attempt at once, every later one more than
\* POSITION_RECOVERY_INTERVAL after the one before.
SubstitutionLimit ==
    1 + (MAX_RECOVERY_ATTEMPTS - 1)
          * ((POSITION_RECOVERY_INTERVAL \div TickStep) + 1)

\* C26: while the native position stays unavailable the synthetic position
\* is substituted for no more iterations than the retries take to force the
\* tier-3 full reinitialization.
C26_SubstitutionEndsInFullReinit ==
    obs.fallback_run <= SubstitutionLimit

\* C27: every iteration whose update() fails produces a failure log line.
C27_EveryFailedUpdateLogged ==
    (obs.step = "cycle" /\ obs.run.update >= 1) => Did("failure_logged")

\* C28: the tier-1 flush runs whenever one of its thresholds is met,
\* whatever is_reset_safe() would answer, and changes neither
\* reset_count_this_session nor last_reset_time_rtc.
C28_FlushIgnoresAndKeepsBudget ==
    /\ ( \/ obs.pos_reached >= POSITION_FAIL_FLUSH_COUNT
         \/ obs.all_reached >= ALL_FAILED_FORCE_COUNT )
           => Did("reset_position_communication")
    /\ ~obs.flush_changed_budget

C28_Witness ==
    /\ Did("reset_position_communication")
    /\ obs.flush_unsafe
    /\ obs.pos_reached >= POSITION_FAIL_FLUSH_COUNT

\* C29: bootCount goes up by exactly one in every pass through setup(), on a
\* cold boot and on a wake-up, and no other step changes it.
C29_BootCountOncePerStartup ==
    [][ /\ pc = "setup" => rtc'.bootCount = rtc.bootCount + 1
        /\ pc # "setup" => rtc'.bootCount = rtc.bootCount ]_vars

C29_Witness ==
    /\ obs.step = "setup"
    /\ wake = "timer"
    /\ rtc.bootCount = 2
    /\ Has(obs.boot_acts, "reset_sensor_system")


\* C30: a recovery action that has begun returns to the loop, whatever the
\* sensor link does, a link that keeps delivering bytes while the action
\* drains the buffer included.
C30_RecoveryActionReturns ==
    <>(pc = "returned")


\* C31: the data timeout is restarted only by an iteration that read some
\* data: no iteration goes on after more than RESET_TIMEOUT without breath
\* rate, heart rate, distance or position, update() returning true or not.
C31_NoFreshDataEndsInEmergencySuspend ==
    pc = "loop" => obs.since_fresh <= RESET_TIMEOUT + TickStep


RecordFields == { "breath_rate", "heart_rate", "x_position", "y_position" }

\* The iteration counted its second vitals failure and either the distance
\* was beyond 1.5 m or the robust re-read obtained nothing.
VitalsUnobtainable ==
    /\ obs.step = "cycle"
    /\ obs.vitals_reached >= VITALS_ROBUST_THRESHOLD
    /\ ram.distance = FarReading \/ obs.robust_result = "fail"

\* C32: in such an iteration the record sent carries the simulated vital
\* signs, breath rate within 12..25 and heart rate within 60..100, in the
\* same four fields as any reading and with no other field.
C32_SimulatedVitalsSentAsReadings ==
    VitalsUnobtainable =>
        /\ Did("simulate_vital_signs")
        /\ Len(obs.sent) = 1
        /\ DOMAIN obs.sent[1] = RecordFields
        /\ obs.sent[1].breath_rate = ram.sim_breath
        /\ obs.sent[1].heart_rate = ram.sim_heart
        /\ obs.sent[1].breath_rate \in SIM_BREATH_MIN..SIM_BREATH_MAX
        /\ obs.sent[1].heart_rate \in SIM_HEART_MIN..SIM_HEART_MAX

\* Simulated values at the top of their ranges sent after a failed re-read.
C32_Witness ==
    /\ VitalsUnobtainable
    /\ obs.robust_result = "fail"
    /\ Len(obs.sent) = 1
    /\ obs.sent[1].breath_rate = SIM_BREATH_MAX
    /\ obs.sent[1].heart_rate = SIM_HEART_MAX


\* C34: whenever the loop evaluates the consecutive-failure check,
\* consecutive_failures is below MAX_CONSECUTIVE_FAILURES, so the block of
\* the check is never executed.
C34_FailureCheckNeverFires ==
    /\ obs.cf_at_check < MAX_CONSECUTIVE_FAILURES
    /\ ~Did("consecutive_failure_alert")

\* The check is evaluated after the diagnostic and the serial check of one
\* iteration have both counted a silent UART on top of 14 failed updates.
C34_Witness ==
    /\ obs.step = "cycle"
    /\ Did("perform_system_diagnostic")
    /\ obs.cf_at_check = FAILURES_SAFE_RESET + 1

\* C35: after a cold boot with no reset on record (last_reset_time_rtc = 0),
\* a reset requested through safe_reset_sensor before MIN_RESET_INTERVAL of
\* uptime is denied: nothing is counted and nothing is stamped.
C35_FirstResetsDeniedAfterColdBoot ==
    [][ ( /\ pc = "loop" /\ wake = "cold"
          /\ rtc.last_reset_time_rtc = 0
          /\ now < MIN_RESET_INTERVAL
          /\ obs'.req_cf >= 0 )
        => /\ Has(acts', "reset_denied")
           /\ ~Has(acts', "reset_authorized")
           /\ ~Has(acts', "reset_sensor_via_serial")
           /\ rtc'.last_reset_time_rtc = 0
           /\ ram'.reset_count_this_session = ram.reset_count_this_session ]_vars

\* A request made at the 15th failure of the first boot, before 30 minutes.
C35_Witness ==
    /\ obs.step = "cycle" /\ wake = "cold"
    /\ obs.req_cf >= FAILURES_SAFE_RESET
    /\ now - TickStep < MIN_RESET_INTERVAL
    /\ rtc.last_reset_time_rtc = 0
    /\ Did("reset_denied")

\* C36: every completed iteration of loop() adds one to total_loops and one
\* to exactly one of successful_readings and failed_readings, neither of
\* which is reset, so that their sum is total_loops when the iteration ends.
C36_ReadingsAddUpToLoops ==
    [][ (pc = "loop" /\ pc' = "loop")
        => /\ ram'.total_loops = ram.total_loops + 1
           /\ \/ /\ ram'.successful_readings = ram.successful_readings + 1
                 /\ ram'.failed_readings = ram.failed_readings
              \/ /\ ram'.successful_readings = ram.successful_readings
                 /\ ram'.failed_readings = ram.failed_readings + 1
           /\ ram'.successful_readings + ram'.failed_readings
                  = ram'.total_loops ]_vars

\* Readings of both kinds have been counted and a reset has been executed.
C36_Witness ==
    /\ obs.step = "cycle"
    /\ Did("reset_authorized")
    /\ ram.successful_readings >= 1
    /\ ram.failed_readings >= 1
    /\ ram.successful_readings + ram.failed_readings = ram.total_loops

\* C37: the watchdog forces the full reinitialization only at the 5th of 5
\* consecutive checks that saw all five last-known values at 0, counted from
\* the last check that saw a value or forced the reinitialization; its
\* counter is the length of the current run of such checks, below 5.
C37_WatchdogForcesAfterFiveZeroChecks ==
    /\ obs.wd_forced_after \in { -1, COMPLETE_FAILURE_LIMIT }
    /\ ram.complete_failure_count = obs.wd_zero_run
    /\ ram.complete_failure_count < COMPLETE_FAILURE_LIMIT

\* The watchdog forces the reinitialization at its 5th all-zero check.
C37_Witness ==
    /\ obs.step = "cycle"
    /\ obs.wd_forced_after = COMPLETE_FAILURE_LIMIT
    /\ Did("force_complete_sensor_reinitialization")
    /\ ram.complete_failure_count = 0

\* C38: an iteration in which the scheduled-sleep timer and the data timeout
\* are both due enters the scheduled suspend, with last_hourly_sleep stamped
\* and is_hourly_sleep_mode set, and suspends once: the emergency branch is
\* not executed.
C38_ScheduledSuspendBeforeEmergency ==
    (InLoop /\ obs.both_due)
        => /\ pc = "sleep"
           /\ obs.sleep_kind = "hourly"
           /\ obs.flag_at_sleep
           /\ rtc.last_hourly_sleep = now
           /\ Cardinality({ i \in DOMAIN acts : acts[i] = "enter_deep_sleep" }) = 1

\* Both timers are due in the iteration that suspends.
C38_Witness ==
    /\ obs.step = "suspend"
    /\ obs.both_due
    /\ obs.sleep_kind = "hourly"

\* C39: the retry state of the position recovery (position_recovery_attempted,
\* recovery_attempts) is not reset by an iteration that finds the synthetic
\* position of the fallback in x_position and y_position.
C39_RetryStateKeptOnSyntheticPosition == ~obs.retry_reset_on_synthetic

\* C33: reset_count_this_session never exceeds MAX_RESETS_PER_SESSION, and
\* from one step to the next of a session (a boot, until it enters deep
\* sleep) it does not decrease.
C33_ResetCountBoundedAndMonotonic ==
    [][ /\ ram.reset_count_this_session <= MAX_RESETS_PER_SESSION
        /\ ram'.reset_count_this_session <= MAX_RESETS_PER_SESSION
        /\ pc # "sleep"
              => ram'.reset_count_this_session >= ram.reset_count_this_session
      ]_vars

\* An iteration after the one that counted a reset: the count is kept.
C33_Witness ==
    /\ obs.step = "cycle"
    /\ ~Did("reset_authorized")
    /\ obs.run.update >= 1
    /\ ram.reset_count_this_session = 1

====
